---- MODULE Spec2Model ----
(***************************************************************************)
(* Routes (route.py) and viruses (virus.py).                               *)
(*                                                                         *)
(* The Python objects live in a heap: heap[i] is the object with identity  *)
(* i, a record holding the class name and the dataclass fields.  A Route   *)
(* holds the identity of its store (or None); a RouteSeries holds a        *)
(* computer and the identity of its following Route; a RouteSplit holds    *)
(* the identities of its top, bottom and following Routes.                 *)
(***************************************************************************)
EXTENDS Integers, Sequences, FiniteSets

VARIABLES heap, root, call, edits, pc, virus, current_route, computers,
          decision, visited, stack, result

vars == <<heap, root, call, edits, pc, virus, current_route, computers,
          decision, visited, stack, result>>

(***************************************************************************)
(* Bounds of the model.                                                    *)
(***************************************************************************)
MaxNodes == 4        \* stores (RouteSeries or RouteSplit) of a route walked
MaxEdits == 2        \* edit operations in one behaviour
MaxDifficulty == 2   \* hacking_difficulty ranges over 0..MaxDifficulty
MaxValue == 5        \* hacked_value ranges over 0..MaxValue
MaxRisk == 2         \* risk_factor ranges over 0..MaxRisk

(***************************************************************************)
(* Values.                                                                 *)
(***************************************************************************)
None == 0

TOP == "TOP"
BOTTOM == "BOTTOM"
STOP == "STOP"

NoDecision == "NONE"

Computer ==
  [hacking_difficulty : 0..MaxDifficulty,
   hacked_value : 0..MaxValue,
   risk_factor : 0..MaxRisk]

\* the two computers placed on the longer routes
RouteComputers ==
  {c \in Computer :
     /\ c.risk_factor = 1
     /\ \/ c.hacking_difficulty = 0 /\ c.hacked_value = 0
        \/ c.hacking_difficulty = 1 /\ c.hacked_value = MaxValue}

VirusTypes ==
  {"TopVirus", "BottomVirus", "LazyVirus", "RiskAverseVirus", "FancyVirus"}

Route(store) == [cls |-> "Route", store |-> store]

RouteSeries(computer, following) ==
  [cls |-> "RouteSeries", computer |-> computer, following |-> following]

RouteSplit(top, bottom, following) ==
  [cls |-> "RouteSplit", top |-> top, bottom |-> bottom,
   following |-> following]

(***************************************************************************)
(* Reading the heap.                                                       *)
(***************************************************************************)
Ids == 1..Len(heap)

IsRoute(i) == i \in Ids /\ heap[i].cls = "Route"

\* isinstance(x, RouteSeries), for x an object identity or None
IsRouteSeries(x) == x # None /\ heap[x].cls = "RouteSeries"

\* isinstance(x, RouteSplit), for x an object identity or None
IsRouteSplit(x) == x # None /\ heap[x].cls = "RouteSplit"

StoreOf(r) == heap[r].store

(***************************************************************************)
(* The routes a behaviour starts from: every tree of at most n stores, as  *)
(* the objects its construction allocates, the Route of the tree at        *)
(* identity b + 1.                                                         *)
(***************************************************************************)
RECURSIVE RoutesOfSize(_, _, _)
RoutesOfSize(n, b, cs) ==
  IF n = 0
  THEN { <<Route(None)>> }
  ELSE { <<Route(b + 2), RouteSeries(c, b + 3)>> \o f :
           c \in cs, f \in RoutesOfSize(n - 1, b + 2, cs) }
       \cup
       UNION { UNION { UNION {
         { <<Route(b + 2),
             RouteSplit(b + 3, b + 3 + Len(t), b + 3 + Len(t) + Len(u))>>
           \o t \o u \o f :
             f \in RoutesOfSize(n - 1 - i - j,
                                b + 2 + Len(t) + Len(u), cs) } :
           u \in RoutesOfSize(j, b + 2 + Len(t), cs) } :
           t \in RoutesOfSize(i, b + 2, cs) } :
           <<i, j>> \in { p \in (0..(n - 1)) \X (0..(n - 1)) :
                           p[1] + p[2] <= n - 1 } }

RoutesUpTo(n, cs) == UNION { RoutesOfSize(m, 0, cs) : m \in 0..n }

\* one fork whose branches are each empty, a fork, or one computer
Heads(b) ==
  { <<Route(None)>> }
  \cup { <<Route(b + 2), RouteSplit(b + 3, b + 4, b + 5),
           Route(None), Route(None), Route(None)>> }
  \cup { <<Route(b + 2), RouteSeries(c, b + 3), Route(None)>> :
           c \in Computer }

Forks ==
  UNION { { <<Route(2), RouteSplit(3, 3 + Len(t), 3 + Len(t) + Len(u))>>
            \o t \o u \o <<Route(None)>> :
              u \in Heads(2 + Len(t)) } : t \in Heads(2) }

WalkedRoutes == RoutesUpTo(MaxNodes, RouteComputers) \cup Forks

\* the computer the edits insert, also the one of the routes they start from
EditComputers ==
  { [hacking_difficulty |-> 1, hacked_value |-> MaxValue, risk_factor |-> 1] }

\* the routes the edits start from: the empty route, and a fork with a
\* computer on its top branch (the edits themselves make only empty forks)
EditedRoutes ==
  { <<Route(None)>> }
  \cup { <<Route(2), RouteSplit(3, 6, 7), Route(4), RouteSeries(c, 5),
           Route(None), Route(None), Route(None)>> : c \in EditComputers }

NoCall == [op |-> "none", self |-> None, ret |-> None]

Idle ==
  /\ pc = "idle"
  /\ virus = "none"
  /\ current_route = None
  /\ computers = <<>>
  /\ decision = NoDecision
  /\ visited = <<>>
  /\ stack = <<>>
  /\ result = <<>>

Init ==
  /\ heap \in WalkedRoutes
  /\ root = 1
  /\ call = NoCall
  /\ edits = 0
  /\ Idle

(***************************************************************************)
(* Numbers.  Python's / is true division, so quotients are kept as exact   *)
(* fractions [n, d] with d > 0.                                            *)
(***************************************************************************)
Num(i) == [n |-> i, d |-> 1]

Plus(a, b) == [n |-> a.n * b.d + b.n * a.d, d |-> a.d * b.d]

Minus(a, b) == [n |-> a.n * b.d - b.n * a.d, d |-> a.d * b.d]

Times(a, b) == [n |-> a.n * b.n, d |-> a.d * b.d]

\* a / b, b nonzero
Div(a, b) ==
  IF b.n > 0
  THEN [n |-> a.n * b.d, d |-> a.d * b.n]
  ELSE [n |-> (0 - a.n) * b.d, d |-> a.d * (0 - b.n)]

Less(a, b) == a.n * b.d < b.n * a.d

\* max(a, b): the first of the largest arguments
max(a, b) == IF Less(a, b) THEN b ELSE a

(***************************************************************************)
(* virus.py: the branch selection of each virus type.  top_branch and      *)
(* bottom_branch are identities of Route objects.                          *)
(***************************************************************************)
add_computer(cs, computer) == Append(cs, computer)

\* mutant: the wrong constant
TopVirus_select_branch_Bottom(top_branch, bottom_branch) == BOTTOM

TopVirus_select_branch(top_branch, bottom_branch) == TOP

BottomVirus_select_branch(top_branch, bottom_branch) == BOTTOM

\* mutant: <= for <, so that equal difficulties take the top branch
LazyVirus_select_branch_Tie(top_branch, bottom_branch) ==
  LET top_route == IsRouteSeries(StoreOf(top_branch))
      bot_route == IsRouteSeries(StoreOf(bottom_branch))
  IN  IF top_route /\ bot_route
      THEN LET top_comp == heap[StoreOf(top_branch)].computer
               bot_comp == heap[StoreOf(bottom_branch)].computer
           IN  IF top_comp.hacking_difficulty <= bot_comp.hacking_difficulty
               THEN TOP
               ELSE IF top_comp.hacking_difficulty
                         > bot_comp.hacking_difficulty
                    THEN BOTTOM
                    ELSE STOP
      ELSE IF top_route THEN BOTTOM ELSE TOP

LazyVirus_select_branch(top_branch, bottom_branch) ==
  LET top_route == IsRouteSeries(StoreOf(top_branch))
      bot_route == IsRouteSeries(StoreOf(bottom_branch))
  IN  IF top_route /\ bot_route
      THEN LET top_comp == heap[StoreOf(top_branch)].computer
               bot_comp == heap[StoreOf(bottom_branch)].computer
           IN  IF top_comp.hacking_difficulty < bot_comp.hacking_difficulty
               THEN TOP
               ELSE IF top_comp.hacking_difficulty
                         > bot_comp.hacking_difficulty
                    THEN BOTTOM
                    ELSE STOP
      ELSE IF top_route THEN BOTTOM ELSE TOP

\* mutant: the division forgotten
divide_by_risk_factor_Skipped(risk_factor, value) == value

divide_by_risk_factor(risk_factor, value) ==
  IF risk_factor # 0 THEN Div(value, Num(risk_factor)) ELSE value

RiskAverseVirus_select_branch(top_branch, bottom_branch) ==
  IF IsRouteSeries(StoreOf(top_branch))
       /\ IsRouteSeries(StoreOf(bottom_branch))
  THEN
    LET t == heap[StoreOf(top_branch)].computer
        b == heap[StoreOf(bottom_branch)].computer
        highest_value_top_branch ==
          divide_by_risk_factor(t.risk_factor,
            max(Num(t.hacking_difficulty), Div(Num(t.hacked_value), Num(2))))
        highest_value_bottom_branch ==
          divide_by_risk_factor(b.risk_factor,
            max(Num(b.hacking_difficulty), Div(Num(b.hacked_value), Num(2))))
        compare ==
          IF Less(highest_value_bottom_branch, highest_value_top_branch)
          THEN TOP
          ELSE IF Less(highest_value_top_branch, highest_value_bottom_branch)
          THEN BOTTOM
          ELSE IF t.risk_factor < b.risk_factor
          THEN TOP
          ELSE IF t.risk_factor > b.risk_factor
          THEN BOTTOM
          ELSE STOP
    IN  IF t.risk_factor = 0 \/ b.risk_factor = 0
        THEN IF t.risk_factor = 0 /\ b.risk_factor = 0
             THEN IF t.hacking_difficulty < b.hacking_difficulty
                  THEN TOP
                  ELSE IF t.hacking_difficulty > b.hacking_difficulty
                       THEN BOTTOM
                       ELSE compare
             ELSE IF t.risk_factor = 0 THEN TOP ELSE BOTTOM
        ELSE compare
  ELSE IF IsRouteSplit(StoreOf(top_branch))
  THEN TOP
  ELSE IF IsRouteSplit(StoreOf(bottom_branch))
  THEN BOTTOM
  ELSE TOP

\* FancyVirus.CALC_STR.split()
CALC_STR == <<"7", "3", "+", "8", "-", "2", "*", "2", "/">>

\* the number a token of CALC_STR denotes
TokenValue(token) ==
  CASE token = "2" -> 2
    [] token = "3" -> 3
    [] token = "7" -> 7
    [] token = "8" -> 8

\* eval(str(num2) + token + str(num1))
Apply(token, num2, num1) ==
  CASE token = "+" -> Plus(num2, num1)
    [] token = "-" -> Minus(num2, num1)
    [] token = "*" -> Times(num2, num1)
    [] token = "/" -> Div(num2, num1)

\* the loop over operations_list, oper_stack a sequence whose last element
\* is the top of the stack; its result is the final oper_stack.pop()
RECURSIVE Evaluate(_, _, _)
Evaluate(operations_list, i, oper_stack) ==
  IF i > Len(operations_list)
  THEN oper_stack[Len(oper_stack)]
  ELSE LET token == operations_list[i]
           k == Len(oper_stack)
       IN  IF token \in {"+", "-", "*", "/"}
           THEN Evaluate(operations_list, i + 1,
                  Append(SubSeq(oper_stack, 1, k - 2),
                         Apply(token, oper_stack[k - 1], oper_stack[k])))
           ELSE Evaluate(operations_list, i + 1,
                  Append(oper_stack, Num(TokenValue(token))))

threshold == Evaluate(CALC_STR, 1, <<>>)

\* isinstance(x, Computer)
IsComputer(x) == x \in Computer

FancyVirus_select_branch(top_branch, bottom_branch) ==
  IF IsRouteSeries(StoreOf(top_branch))
       /\ IsRouteSeries(StoreOf(bottom_branch))
  THEN LET t == heap[StoreOf(top_branch)].computer
           b == heap[StoreOf(bottom_branch)].computer
       IN  IF IsComputer(t) /\ IsComputer(b)
           THEN IF Less(Num(t.hacked_value), threshold)
                THEN TOP
                ELSE IF Less(threshold, Num(b.hacked_value))
                     THEN BOTTOM
                     ELSE STOP
           ELSE TOP
  \* the tests below are on the Route objects themselves, not their stores
  ELSE IF IsRouteSplit(top_branch)
  THEN TOP
  ELSE IF IsRouteSplit(bottom_branch)
  THEN BOTTOM
  ELSE TOP

select_branch(virus_type, top_branch, bottom_branch) ==
  CASE virus_type = "TopVirus" ->
         TopVirus_select_branch(top_branch, bottom_branch)
    [] virus_type = "BottomVirus" ->
         BottomVirus_select_branch(top_branch, bottom_branch)
    [] virus_type = "LazyVirus" ->
         LazyVirus_select_branch(top_branch, bottom_branch)
    [] virus_type = "RiskAverseVirus" ->
         RiskAverseVirus_select_branch(top_branch, bottom_branch)
    [] virus_type = "FancyVirus" ->
         FancyVirus_select_branch(top_branch, bottom_branch)

(***************************************************************************)
(* route.py: Route.follow_path.  The caller constructs the virus (its      *)
(* computers list empty) and calls follow_path on its route; each further  *)
(* action is one iteration of the while loop.                              *)
(***************************************************************************)
follow_path(virus_type) ==
  /\ pc = "idle"
  /\ pc' = "follow_path"
  /\ virus' = virus_type
  /\ computers' = <<>>
  /\ current_route' = root
  /\ decision' = NoDecision
  /\ visited' = <<>>
  /\ stack' = <<>>
  /\ result' = <<>>
  /\ UNCHANGED <<heap, root, call, edits>>

\* mutant: the walk does not move on after a computer
follow_path_Series_Stays ==
  /\ pc = "follow_path"
  /\ StoreOf(current_route) # None
  /\ IsRouteSeries(StoreOf(current_route))
  /\ computers' = add_computer(computers,
                               heap[StoreOf(current_route)].computer)
  /\ current_route' = current_route
  /\ visited' = Append(visited, current_route)
  /\ UNCHANGED <<heap, root, call, edits, pc, virus, decision, stack,
                 result>>

follow_path_Series ==
  /\ pc = "follow_path"
  /\ StoreOf(current_route) # None
  /\ IsRouteSeries(StoreOf(current_route))
  /\ computers' = add_computer(computers,
                               heap[StoreOf(current_route)].computer)
  /\ current_route' = heap[StoreOf(current_route)].following
  /\ visited' = Append(visited, current_route)
  /\ UNCHANGED <<heap, root, call, edits, pc, virus, decision, stack,
                 result>>

\* mutant: on STOP the walk goes on into the fork's following route
follow_path_Split_GoesOn ==
  /\ pc = "follow_path"
  /\ StoreOf(current_route) # None
  /\ ~IsRouteSeries(StoreOf(current_route))
  /\ IsRouteSplit(StoreOf(current_route))
  /\ LET d == select_branch(virus, heap[StoreOf(current_route)].top,
                            heap[StoreOf(current_route)].bottom)
     IN  /\ decision' = d
         /\ current_route' =
              IF d = TOP THEN heap[StoreOf(current_route)].top
              ELSE IF d = BOTTOM THEN heap[StoreOf(current_route)].bottom
              ELSE heap[StoreOf(current_route)].following
  /\ visited' = Append(visited, current_route)
  /\ UNCHANGED <<heap, root, call, edits, pc, virus, computers, stack,
                 result>>

follow_path_Split ==
  /\ pc = "follow_path"
  /\ StoreOf(current_route) # None
  /\ ~IsRouteSeries(StoreOf(current_route))
  /\ IsRouteSplit(StoreOf(current_route))
  /\ LET d == select_branch(virus, heap[StoreOf(current_route)].top,
                            heap[StoreOf(current_route)].bottom)
     IN  /\ decision' = d
         /\ IF d = TOP
            THEN /\ current_route' = heap[StoreOf(current_route)].top
                 /\ pc' = pc
            ELSE IF d = BOTTOM
            THEN /\ current_route' = heap[StoreOf(current_route)].bottom
                 /\ pc' = pc
            ELSE /\ current_route' = current_route
                 /\ pc' = "idle"
  /\ visited' = Append(visited, current_route)
  /\ UNCHANGED <<heap, root, call, edits, virus, computers, stack, result>>

follow_path_End ==
  /\ pc = "follow_path"
  /\ StoreOf(current_route) = None
  /\ pc' = "idle"
  /\ visited' = Append(visited, current_route)
  /\ UNCHANGED <<heap, root, call, edits, virus, current_route, computers,
                 decision, stack, result>>

(***************************************************************************)
(* route.py: Route.add_all_computers.  stack holds one frame per active    *)
(* call, the innermost last: its current_route, its computers list, and    *)
(* the recursive call it waits for ("top", "bottom") or "loop" when it is  *)
(* at the head of its while loop.                                          *)
(***************************************************************************)
Frame(route) == [current_route |-> route, computers |-> <<>>, at |-> "loop"]

Top == stack[Len(stack)]

SetTop(frame) == [stack EXCEPT ![Len(stack)] = frame]

add_all_computers ==
  /\ pc = "idle"
  /\ pc' = "add_all_computers"
  /\ stack' = <<Frame(root)>>
  /\ visited' = <<>>
  /\ result' = <<>>
  /\ virus' = "none"
  /\ computers' = <<>>
  /\ current_route' = None
  /\ decision' = NoDecision
  /\ UNCHANGED <<heap, root, call, edits>>

add_all_computers_Series ==
  /\ pc = "add_all_computers"
  /\ StoreOf(Top.current_route) # None
  /\ IsRouteSeries(StoreOf(Top.current_route))
  /\ stack' = SetTop([Top EXCEPT
       !.computers = Append(@, heap[StoreOf(Top.current_route)].computer),
       !.current_route = heap[StoreOf(Top.current_route)].following])
  /\ visited' = Append(visited, Top.current_route)
  /\ UNCHANGED <<heap, root, call, edits, pc, virus, current_route,
                 computers, decision, result>>

\* the call on the top branch
add_all_computers_Split ==
  /\ pc = "add_all_computers"
  /\ StoreOf(Top.current_route) # None
  /\ ~IsRouteSeries(StoreOf(Top.current_route))
  /\ IsRouteSplit(StoreOf(Top.current_route))
  /\ stack' = Append(SetTop([Top EXCEPT !.at = "top"]),
                     Frame(heap[StoreOf(Top.current_route)].top))
  /\ visited' = Append(visited, Top.current_route)
  /\ UNCHANGED <<heap, root, call, edits, pc, virus, current_route,
                 computers, decision, result>>

\* the call on the top branch returns: extend, then the call on the bottom
add_all_computers_ReturnTop ==
  /\ pc = "add_all_computers"
  /\ StoreOf(Top.current_route) = None
  /\ Len(stack) > 1
  /\ stack[Len(stack) - 1].at = "top"
  /\ LET caller == stack[Len(stack) - 1]
     IN  stack' = SubSeq(stack, 1, Len(stack) - 2)
                  \o << [caller EXCEPT
                           !.computers = @ \o Top.computers,
                           !.at = "bottom"],
                        Frame(heap[StoreOf(caller.current_route)].bottom) >>
  /\ visited' = Append(visited, Top.current_route)
  /\ UNCHANGED <<heap, root, call, edits, pc, virus, current_route,
                 computers, decision, result>>

\* mutant: the bottom branch's computers put before those collected so far
add_all_computers_ReturnBottom_Before ==
  /\ pc = "add_all_computers"
  /\ StoreOf(Top.current_route) = None
  /\ Len(stack) > 1
  /\ stack[Len(stack) - 1].at = "bottom"
  /\ LET caller == stack[Len(stack) - 1]
     IN  stack' = SubSeq(stack, 1, Len(stack) - 2)
                  \o << [caller EXCEPT
                           !.computers = Top.computers \o @,
                           !.at = "loop",
                           !.current_route =
                             heap[StoreOf(caller.current_route)].following] >>
  /\ visited' = Append(visited, Top.current_route)
  /\ UNCHANGED <<heap, root, call, edits, pc, virus, current_route,
                 computers, decision, result>>

\* the call on the bottom branch returns: extend, then move to following
add_all_computers_ReturnBottom ==
  /\ pc = "add_all_computers"
  /\ StoreOf(Top.current_route) = None
  /\ Len(stack) > 1
  /\ stack[Len(stack) - 1].at = "bottom"
  /\ LET caller == stack[Len(stack) - 1]
     IN  stack' = SubSeq(stack, 1, Len(stack) - 2)
                  \o << [caller EXCEPT
                           !.computers = @ \o Top.computers,
                           !.at = "loop",
                           !.current_route =
                             heap[StoreOf(caller.current_route)].following] >>
  /\ visited' = Append(visited, Top.current_route)
  /\ UNCHANGED <<heap, root, call, edits, pc, virus, current_route,
                 computers, decision, result>>

\* the outermost call returns its list
add_all_computers_Return ==
  /\ pc = "add_all_computers"
  /\ StoreOf(Top.current_route) = None
  /\ Len(stack) = 1
  /\ result' = Top.computers
  /\ stack' = <<>>
  /\ pc' = "idle"
  /\ visited' = Append(visited, Top.current_route)
  /\ UNCHANGED <<heap, root, call, edits, virus, current_route, computers,
                 decision>>

(***************************************************************************)
(* route.py: the structural edits.  Each allocates its new objects after   *)
(* the existing ones, in the order Python constructs them, and leaves in   *)
(* call the operation, the object it was called on and what it returned.   *)
(***************************************************************************)
New(k) == Len(heap) + k

\* an edit method can be called: no traversal is running
CanCall == pc = "idle" /\ edits < MaxEdits

\* a method of class cls is called on the object self
Called(self, cls) ==
  /\ CanCall
  /\ self \in Ids
  /\ heap[self].cls = cls

Returned(op, self, ret) ==
  /\ call' = [op |-> op, self |-> self, ret |-> ret]
  /\ edits' = edits + 1
  /\ UNCHANGED <<root, pc, virus, current_route, computers, decision,
                 visited, stack, result>>

Route_add_computer_before(self, computer) ==
  /\ Called(self, "Route")
  /\ heap' = heap \o <<RouteSeries(computer, self), Route(New(1))>>
  /\ Returned("Route.add_computer_before", self, New(2))

\* mutant: the route becomes the top branch of the new fork
Route_add_empty_branch_before_AsTop(self) ==
  /\ Called(self, "Route")
  /\ heap' = heap \o <<Route(None), Route(None),
                       RouteSplit(self, New(1), New(2)), Route(New(3))>>
  /\ Returned("Route.add_empty_branch_before", self, New(4))

Route_add_empty_branch_before(self) ==
  /\ Called(self, "Route")
  /\ heap' = heap \o <<Route(None), Route(None),
                       RouteSplit(New(1), New(2), self), Route(New(3))>>
  /\ Returned("Route.add_empty_branch_before", self, New(4))

RouteSplit_remove_branch(self) ==
  /\ Called(self, "RouteSplit")
  /\ heap' = heap
  /\ Returned("RouteSplit.remove_branch", self,
              heap[heap[self].following].store)

RouteSeries_remove_computer(self) ==
  /\ Called(self, "RouteSeries")
  /\ heap' = heap
  /\ Returned("RouteSeries.remove_computer", self,
              heap[heap[self].following].store)

RouteSeries_add_computer_before(self, computer) ==
  /\ Called(self, "RouteSeries")
  /\ heap' = heap \o <<Route(self), RouteSeries(computer, New(1))>>
  /\ Returned("RouteSeries.add_computer_before", self, New(2))

\* mutant: the new computer spliced into the node itself
RouteSeries_add_computer_after_InPlace(self, computer) ==
  /\ Called(self, "RouteSeries")
  /\ heap' = [heap EXCEPT ![self].following = New(2)]
              \o <<RouteSeries(computer, heap[self].following),
                   Route(New(1))>>
  /\ Returned("RouteSeries.add_computer_after", self, self)

RouteSeries_add_computer_after(self, computer) ==
  /\ Called(self, "RouteSeries")
  /\ heap' = heap \o <<RouteSeries(computer, heap[self].following),
                       Route(New(1)),
                       RouteSeries(heap[self].computer, New(2))>>
  /\ Returned("RouteSeries.add_computer_after", self, New(3))

RouteSeries_add_empty_branch_before(self) ==
  /\ Called(self, "RouteSeries")
  /\ heap' = heap \o <<Route(None), Route(None), Route(self),
                       RouteSplit(New(1), New(2), New(3))>>
  /\ Returned("RouteSeries.add_empty_branch_before", self, New(4))

RouteSeries_add_empty_branch_after(self) ==
  /\ Called(self, "RouteSeries")
  /\ heap' = heap \o <<Route(None), Route(None),
                       RouteSplit(New(1), New(2), heap[self].following),
                       Route(New(3)),
                       RouteSeries(heap[self].computer, New(4))>>
  /\ Returned("RouteSeries.add_empty_branch_after", self, New(5))

\* the caller rebinds its route to what the edit returned: the Route
\* itself, or a new Route around the returned store
Rebind ==
  /\ pc = "idle"
  /\ call.op # "none"
  /\ root # call.ret
  /\ IF IsRoute(call.ret)
     THEN /\ root' = call.ret
          /\ UNCHANGED <<heap, call>>
     ELSE /\ heap' = Append(heap, Route(call.ret))
          /\ root' = New(1)
          /\ call' = [call EXCEPT !.ret = New(1)]
  /\ UNCHANGED <<edits, pc, virus, current_route, computers, decision,
                 visited, stack, result>>

Next ==
  \/ \E v \in VirusTypes : follow_path(v)
  \/ follow_path_Series
  \/ follow_path_Split
  \/ follow_path_End
  \/ add_all_computers
  \/ add_all_computers_Series
  \/ add_all_computers_Split
  \/ add_all_computers_ReturnTop
  \/ add_all_computers_ReturnBottom
  \/ add_all_computers_Return

Spec == Init /\ [][Next]_vars

InitEdit ==
  /\ heap \in EditedRoutes
  /\ root = 1
  /\ call = NoCall
  /\ edits = 0
  /\ Idle

NextEdit ==
  \/ CanCall /\ \E self \in Ids : \E c \in EditComputers :
                  Route_add_computer_before(self, c)
  \/ CanCall /\ \E self \in Ids : Route_add_empty_branch_before(self)
  \/ CanCall /\ \E self \in Ids : RouteSplit_remove_branch(self)
  \/ CanCall /\ \E self \in Ids : RouteSeries_remove_computer(self)
  \/ CanCall /\ \E self \in Ids : \E c \in EditComputers :
                  RouteSeries_add_computer_before(self, c)
  \/ CanCall /\ \E self \in Ids : \E c \in EditComputers :
                  RouteSeries_add_computer_after(self, c)
  \/ CanCall /\ \E self \in Ids : RouteSeries_add_empty_branch_before(self)
  \/ CanCall /\ \E self \in Ids : RouteSeries_add_empty_branch_after(self)
  \/ Rebind
  \/ \E v \in VirusTypes : follow_path(v)
  \/ follow_path_Series
  \/ follow_path_Split
  \/ follow_path_End
  \/ add_all_computers
  \/ add_all_computers_Series
  \/ add_all_computers_Split
  \/ add_all_computers_ReturnTop
  \/ add_all_computers_ReturnBottom
  \/ add_all_computers_Return

SpecEdit == InitEdit /\ [][NextEdit]_vars

\* Python runs a call to its end: a traversal under way takes its next step
Step ==
  \/ follow_path_Series
  \/ follow_path_Split
  \/ follow_path_End
  \/ add_all_computers_Series
  \/ add_all_computers_Split
  \/ add_all_computers_ReturnTop
  \/ add_all_computers_ReturnBottom
  \/ add_all_computers_Return

\* whether a traversal ends does not hang on the attributes of the
\* computers: the routes of at most MaxNodes stores, without the forks that
\* range over all computers
InitLive ==
  /\ heap \in RoutesUpTo(MaxNodes, RouteComputers)
  /\ root = 1
  /\ call = NoCall
  /\ edits = 0
  /\ Idle

SpecLive == InitLive /\ [][Next]_vars /\ WF_vars(Step)

(***************************************************************************)
(* What the properties below speak of.                                     *)
(***************************************************************************)
Last(seq) == seq[Len(seq)]

\* a walk by a virus has met a fork: the Route it decided at, and the
\* heads of the fork's two branches
AtFork(v) ==
  /\ virus = v
  /\ visited # <<>>
  /\ IsRouteSplit(StoreOf(Last(visited)))

ForkTop == heap[StoreOf(Last(visited))].top

ForkBottom == heap[StoreOf(Last(visited))].bottom

StartsWithStop(r) == StoreOf(r) # None /\ heap[StoreOf(r)].cls = "RouteSeries"

StartsWithFork(r) == StoreOf(r) # None /\ heap[StoreOf(r)].cls = "RouteSplit"

IsEmpty(r) == StoreOf(r) = None

Stop(r) == heap[StoreOf(r)].computer

\* the branch without the stop when exactly one branch starts with a stop,
\* TOP when neither does
AvoidTheStop(top, bottom) ==
  IF StartsWithStop(top) /\ ~StartsWithStop(bottom)
  THEN BOTTOM
  ELSE TOP

(***************************************************************************)
(* C1.  RiskAverseVirus.select_branch, when the branches do not both start *)
(* with a stop: if exactly one starts with a stop the decision is the      *)
(* branch without the stop, and if neither does the decision is TOP.       *)
(* The code tests the heads for forks only, and decides otherwise.         *)
(***************************************************************************)
C1_RiskAverseAvoidsTheStop ==
  (AtFork("RiskAverseVirus")
     /\ ~(StartsWithStop(ForkTop) /\ StartsWithStop(ForkBottom)))
  => decision = AvoidTheStop(ForkTop, ForkBottom)

(***************************************************************************)
(* C2.  FancyVirus.select_branch, when the branches do not both start with *)
(* a stop: if exactly one starts with a stop the decision is the branch    *)
(* without the stop, and TOP otherwise.  The code decides TOP in all these *)
(* cases.                                                                  *)
(***************************************************************************)
C2_FancyAvoidsTheStop ==
  (AtFork("FancyVirus")
     /\ ~(StartsWithStop(ForkTop) /\ StartsWithStop(ForkBottom)))
  => decision = AvoidTheStop(ForkTop, ForkBottom)

(***************************************************************************)
(* C5.  RiskAverseVirus.select_branch, when both branches start with a     *)
(* stop: a stop of risk factor zero wins against one of nonzero risk; two  *)
(* stops of risk factor zero and different difficulties: the lower         *)
(* difficulty wins; both risk factors nonzero: the higher                  *)
(* max(hacking_difficulty, hacked_value / 2) / risk_factor wins, on equal  *)
(* values the lower risk factor, and STOP when those are equal too.        *)
(* The values are compared without dividing:                               *)
(*   max(dt, vt / 2) / rt > max(db, vb / 2) / rb                           *)
(*   iff  max(2 dt, vt) * rb > max(2 db, vb) * rt.                         *)
(***************************************************************************)
Twice(c) ==
  IF 2 * c.hacking_difficulty >= c.hacked_value
  THEN 2 * c.hacking_difficulty
  ELSE c.hacked_value

C5_Expected(t, b) ==
  IF Twice(t) * b.risk_factor > Twice(b) * t.risk_factor THEN TOP
  ELSE IF Twice(t) * b.risk_factor < Twice(b) * t.risk_factor THEN BOTTOM
  ELSE IF t.risk_factor < b.risk_factor THEN TOP
  ELSE IF t.risk_factor > b.risk_factor THEN BOTTOM
  ELSE STOP

C5_RiskAverseBothStops ==
  (AtFork("RiskAverseVirus")
     /\ StartsWithStop(ForkTop) /\ StartsWithStop(ForkBottom))
  => LET t == Stop(ForkTop)
         b == Stop(ForkBottom)
     IN  /\ (t.risk_factor = 0 /\ b.risk_factor # 0) => decision = TOP
         /\ (t.risk_factor # 0 /\ b.risk_factor = 0) => decision = BOTTOM
         /\ (t.risk_factor = 0 /\ b.risk_factor = 0
               /\ t.hacking_difficulty < b.hacking_difficulty)
            => decision = TOP
         /\ (t.risk_factor = 0 /\ b.risk_factor = 0
               /\ t.hacking_difficulty > b.hacking_difficulty)
            => decision = BOTTOM
         /\ (t.risk_factor # 0 /\ b.risk_factor # 0)
            => decision = C5_Expected(t, b)

\* the example of the specification's section 8 cannot be reached within
\* the bounds; this is a fork of the same kind: equal difficulty and value,
\* the bottom stop of the lower risk factor, so of the higher value
C5_Witness ==
  /\ AtFork("RiskAverseVirus")
  /\ StartsWithStop(ForkTop) /\ StartsWithStop(ForkBottom)
  /\ Stop(ForkTop) =
       [hacking_difficulty |-> 1, hacked_value |-> 5, risk_factor |-> 2]
  /\ Stop(ForkBottom) =
       [hacking_difficulty |-> 1, hacked_value |-> 5, risk_factor |-> 1]
  /\ decision = BOTTOM
  /\ current_route = ForkBottom

(***************************************************************************)
(* C6.  LazyVirus.select_branch: both branches start with a stop: the      *)
(* branch of the strictly lower hacking difficulty, STOP when equal;       *)
(* exactly one starts with a stop: the branch without it; neither: TOP.    *)
(***************************************************************************)
C6_LazyDecision ==
  AtFork("LazyVirus")
  => IF StartsWithStop(ForkTop) /\ StartsWithStop(ForkBottom)
     THEN LET dt == Stop(ForkTop).hacking_difficulty
              db == Stop(ForkBottom).hacking_difficulty
          IN  /\ dt < db => decision = TOP
              /\ dt > db => decision = BOTTOM
              /\ dt = db => decision = STOP
     ELSE IF StartsWithStop(ForkTop) THEN decision = BOTTOM
     ELSE IF StartsWithStop(ForkBottom) THEN decision = TOP
     ELSE decision = TOP

C6_Witness ==
  /\ AtFork("LazyVirus")
  /\ StartsWithStop(ForkTop)
  /\ StartsWithFork(ForkBottom)
  /\ decision = BOTTOM
  /\ current_route = ForkBottom

(***************************************************************************)
(* Routes as trees: the Routes below a Route, the stops in the canonical   *)
(* order, and the path a walk is to take.                                  *)
(***************************************************************************)
RECURSIVE Reach(_)
Reach(r) ==
  {r} \cup
  ( IF IsEmpty(r) THEN {}
    ELSE IF StartsWithStop(r) THEN Reach(heap[StoreOf(r)].following)
    ELSE Reach(heap[StoreOf(r)].top) \cup Reach(heap[StoreOf(r)].bottom)
           \cup Reach(heap[StoreOf(r)].following) )

RECURSIVE AllStops(_)
AllStops(r) ==
  IF IsEmpty(r) THEN <<>>
  ELSE IF StartsWithStop(r)
  THEN <<Stop(r)>> \o AllStops(heap[StoreOf(r)].following)
  ELSE AllStops(heap[StoreOf(r)].top) \o AllStops(heap[StoreOf(r)].bottom)
         \o AllStops(heap[StoreOf(r)].following)

\* the Routes on the single path from r: following after a stop, the
\* branch the policy chooses at a fork, ending with the first empty Route
\* or the first fork where the policy stops
RECURSIVE Path(_, _)
Path(r, v) ==
  IF IsEmpty(r) THEN <<r>>
  ELSE IF StartsWithStop(r)
  THEN <<r>> \o Path(heap[StoreOf(r)].following, v)
  ELSE LET d == select_branch(v, heap[StoreOf(r)].top,
                              heap[StoreOf(r)].bottom)
       IN  IF d = TOP THEN <<r>> \o Path(heap[StoreOf(r)].top, v)
           ELSE IF d = BOTTOM THEN <<r>> \o Path(heap[StoreOf(r)].bottom, v)
           ELSE <<r>>

\* the same with the top branch at every fork
RECURSIVE TopPath(_)
TopPath(r) ==
  IF IsEmpty(r) THEN <<r>>
  ELSE IF StartsWithStop(r) THEN <<r>> \o TopPath(heap[StoreOf(r)].following)
  ELSE <<r>> \o TopPath(heap[StoreOf(r)].top)

\* the stops of the Series nodes among the Routes of a path, in order
RECURSIVE StopsOn(_)
StopsOn(path) ==
  IF path = <<>> THEN <<>>
  ELSE (IF StartsWithStop(path[1]) THEN <<Stop(path[1])>> ELSE <<>>)
       \o StopsOn(Tail(path))

IsPrefix(a, b) == Len(a) <= Len(b) /\ a = SubSeq(b, 1, Len(a))

Range(seq) == {seq[i] : i \in 1..Len(seq)}

Forks_In(r) == {x \in Reach(r) : StartsWithFork(x)}

\* the Routes inside the following sub-route of a fork
InFollowing(x) == Reach(heap[StoreOf(x)].following)

\* the Routes inside the bottom sub-route of a fork
InBottom(x) == Reach(heap[StoreOf(x)].bottom)

\* a walk of follow_path is under way or over, and where it started
Walking == virus # "none" /\ pc \in {"follow_path", "idle"}

WalkStart == IF visited = <<>> THEN current_route ELSE visited[1]

WalkOver == virus # "none" /\ pc = "idle"

\* a call of add_all_computers is over, and where it started
Collected == virus = "none" /\ pc = "idle" /\ visited # <<>>

(***************************************************************************)
(* C3.  follow_path appends exactly, in order, the stops of the Series     *)
(* nodes on the single path from the head of the route (following after a  *)
(* stop, the policy's branch at a fork); the walk ends at the first empty  *)
(* Route or the first fork where the policy returns STOP; no Route inside  *)
(* the following sub-route of a fork on the path is visited.               *)
(***************************************************************************)
C3_WalkFollowsThePath ==
  Walking =>
    /\ IsPrefix(visited, Path(WalkStart, virus))
    /\ computers = StopsOn(visited)
    /\ WalkOver => /\ visited = Path(WalkStart, virus)
                   /\ computers = StopsOn(Path(WalkStart, virus))
    /\ \A i \in 1..Len(visited) :
         StartsWithFork(visited[i])
         => Range(visited) \cap InFollowing(visited[i]) = {}

\* a walk that took a bottom branch, collected a stop there and ended,
\* past a fork whose following sub-route holds a stop
C3_Witness ==
  /\ WalkOver
  /\ virus = "LazyVirus"
  /\ Len(computers) >= 1
  /\ \E i \in 1..Len(visited) :
       /\ StartsWithFork(visited[i])
       /\ StartsWithStop(heap[StoreOf(visited[i])].following)
       /\ i < Len(visited)
       /\ visited[i + 1] = heap[StoreOf(visited[i])].bottom
       /\ StartsWithStop(visited[i + 1])

(***************************************************************************)
(* C4.  add_all_computers returns every stop once per Series node, in the  *)
(* canonical order: a Series gives its stop and then the stops of          *)
(* following; a Split the stops of top, then bottom, then following.       *)
(***************************************************************************)
C4_AllStopsInCanonicalOrder ==
  Collected =>
    /\ result = AllStops(visited[1])
    /\ Len(result)
         = Cardinality({r \in Reach(visited[1]) : StartsWithStop(r)})

\* a fork nested in the top branch of a fork, stops on both levels
C4_Witness ==
  /\ Collected
  /\ StartsWithFork(visited[1])
  /\ StartsWithFork(heap[StoreOf(visited[1])].top)
  /\ StartsWithStop(heap[StoreOf(heap[StoreOf(visited[1])].top)].bottom)
  /\ StartsWithStop(heap[StoreOf(visited[1])].following)
  /\ Len(result) >= 2

(***************************************************************************)
(* C7.  A walk with TopVirus visits only what taking the top branch at     *)
(* every fork reaches: no Route inside the bottom sub-route of any fork of *)
(* the route is visited, so no stop there is appended.                     *)
(***************************************************************************)
C7_TopVirusNeverEntersBottom ==
  (Walking /\ virus = "TopVirus") =>
    /\ IsPrefix(visited, TopPath(WalkStart))
    /\ computers = StopsOn(visited)
    /\ \A x \in Forks_In(WalkStart) :
         /\ Range(visited) \cap InBottom(x) = {}
         /\ current_route \notin InBottom(x)

\* a finished walk over a fork whose bottom branch holds a stop, with a
\* stop collected on the top branch
C7_Witness ==
  /\ WalkOver
  /\ virus = "TopVirus"
  /\ StartsWithFork(visited[1])
  /\ StartsWithStop(heap[StoreOf(visited[1])].bottom)
  /\ StartsWithStop(heap[StoreOf(visited[1])].top)
  /\ Len(computers) >= 1

(***************************************************************************)
(* C8.  No edit changes an object that exists: each only allocates new     *)
(* objects, so every Route obtained earlier still describes the same tree. *)
(***************************************************************************)
C8_EditsLeaveNodesAlone ==
  [][ /\ Len(heap') >= Len(heap)
      /\ \A i \in 1..Len(heap) : heap'[i] = heap[i] ]_vars

\* two edits, the last one splicing after a computer of the first one's
\* result
C8_Witness ==
  /\ edits >= 2
  /\ call.op = "RouteSeries.add_computer_after"
  /\ call.self > 1
  /\ Len(heap) >= 8

(***************************************************************************)
(* C9.  Every traversal terminates, and none visits a Route twice.         *)
(***************************************************************************)
NoRevisit ==
  \A i, j \in 1..Len(visited) : visited[i] = visited[j] => i = j

C9_TraversalsTerminate ==
  /\ (pc = "follow_path") ~> (pc = "idle")
  /\ (pc = "add_all_computers") ~> (pc = "idle")
  /\ []NoRevisit

\* a finished add_all_computers over forks nested three levels deep
C9_Witness ==
  /\ Collected
  /\ StartsWithFork(visited[1])
  /\ StartsWithFork(heap[StoreOf(visited[1])].top)
  /\ StartsWithFork(heap[StoreOf(heap[StoreOf(visited[1])].top)].bottom)
  /\ Len(visited) >= 10

(***************************************************************************)
(* C10.  A walk on r.add_empty_branch_before() appends no stop, whatever   *)
(* the policy, while add_all_computers on it returns the stops of r.       *)
(***************************************************************************)
C10_EmptyForkHidesTheRoute ==
  (call.op = "Route.add_empty_branch_before" /\ visited # <<>>
     /\ visited[1] = call.ret)
  => /\ Walking => computers = <<>>
     /\ WalkOver => /\ Len(visited) = 2
                    /\ Range(visited) \cap Reach(call.self) = {}
     /\ Collected => result = AllStops(call.self)

\* a finished walk on the new route, r holding a stop
C10_Witness ==
  /\ call.op = "Route.add_empty_branch_before"
  /\ WalkOver
  /\ virus = "RiskAverseVirus"
  /\ visited[1] = call.ret
  /\ root = call.ret
  /\ AllStops(call.self) # <<>>

====
